---- MODULE Spec2Model ----
(***************************************************************************)
(* Model of the request handlers of web/urls.py (diet-management): the     *)
(* relational store, the session, the clock and the last response, with    *)
(* one action per handler.  Decimal arithmetic is exact fixed point: BMR   *)
(* in thousandths, AMR and the target in 1/40000 (TLC's integers are 32    *)
(* bits wide).                                                             *)
(***************************************************************************)
EXTENDS Integers, Sequences, FiniteSets, TLC

VARIABLES
    User,                  \* table User: row id = position; never deleted
    UserCalories,          \* table UserCalories: rows [user_id, calories]
    UserCurrentDiet,       \* table UserCurrentDiet: row id = position; never deleted
    UserCurrentDietMeals,  \* table UserCurrentDietMeals: rows [user_current_diet_id, meal_id, serving_size]
    DietCalories,          \* table DietCalories: rows [user_current_diet_id, calories]
    UserWeightOverTime,    \* table UserWeightOverTime: rows [user_id, weight, created_at]
    UserCaloriesOverTime,  \* table UserCaloriesOverTime: rows [user_id, calories, created_at]
    current_user,          \* flask_login session of the browser: 0 = anonymous, else a User id
    now,                   \* datetime.datetime.now(), in days
    response,              \* the response of the last request
    requests               \* the requests in flight, each at one statement of its handler

vars == <<User, UserCalories, UserCurrentDiet, UserCurrentDietMeals, DietCalories,
          UserWeightOverTime, UserCaloriesOverTime, current_user, now, response, requests>>

store == <<User, UserCalories, UserCurrentDiet, UserCurrentDietMeals, DietCalories,
           UserWeightOverTime, UserCaloriesOverTime>>

(*************************** bounds of the model ***************************)
MaxSamples == 1
MaxTicks == 1
DayStep == 8
NumRequests == 2
HistNow == 400

(****************************** input sets *********************************)
Emails == {"a@x", "b@x"}
Passwords == {"pw1", "pw2"}
Genders == {"Male", "Female"}
ActivityLevels == {"Sedentary", "Lightly Active", "Moderately Active", "Very Active", "Extra Active"}
Goals == {"Lose Weight", "Maintain Weight", "Gain Weight"}

\* None of a numeric column and of a string column
NoneNum == 0 - 1
NoneStr == "None"

\* Python truthiness of a column value: None, 0 and "" are false
Truthy(x) == x # NoneNum /\ x # 0
TruthyStr(s) == s # NoneStr /\ s # ""

Ids(table) == 1 .. Len(table)

RECURSIVE SumSeq(_)
SumSeq(s) == IF s = <<>> THEN 0 ELSE Head(s) + SumSeq(Tail(s))

\* Query.filter_by(...).all(): the rows that match, in table order
Filter(table, Test(_)) == SelectSeq(table, Test)

\* the samples of a log written within the last DayStep days: each log takes
\* at most MaxSamples of them
Recent(table) == Filter(table, LAMBDA row : row.created_at >= now - DayStep)

(************************ responses and the router *************************)
\* the endpoints @app.route registers (the handlers' function names) and "static"
Endpoints == {"index", "register", "login", "logout", "finish_account", "account",
              "get_calories", "get_meals", "show_meals", "save_calories",
              "show_calories", "show_weight", "reset_request", "reset_token", "static"}

BuildError == "werkzeug.routing.BuildError"

\* url_for(endpoint): the URL of a registered endpoint, BuildError for any other name
url_for(endpoint) == IF endpoint \in Endpoints THEN endpoint ELSE BuildError

\* an exception no handler catches: Flask answers 500
ServerError(endpoint, exc) ==
    [endpoint |-> endpoint, kind |-> "error", location |-> "", next |-> "", data |-> <<exc>>]

\* render_template(...): data is what the handler hands to the template
Render(endpoint, data) ==
    [endpoint |-> endpoint, kind |-> "render", location |-> "", next |-> "", data |-> data]

\* redirect(url_for(target)): url_for is evaluated first and may raise
Redirect(endpoint, target) ==
    IF target = BuildError
    THEN ServerError(endpoint, BuildError)
    ELSE [endpoint |-> endpoint, kind |-> "redirect", location |-> target, next |-> "", data |-> <<>>]

\* flask_login's answer to an anonymous request of a @login_required view
Unauthorized(endpoint) ==
    [endpoint |-> endpoint, kind |-> "redirect", location |-> "login", next |-> endpoint, data |-> <<>>]

\* request.args.get('next') of a request sent from the login page the browser is on
NextArg ==
    IF response.location = "login" \/ (response.endpoint = "login" /\ response.kind = "render")
    THEN response.next
    ELSE ""

(******************************* the session ******************************)
is_authenticated == current_user # 0

\* the six-field test of account_complete and of login
profile_complete(u) ==
    /\ Truthy(u.height) /\ Truthy(u.weight) /\ Truthy(u.age)
    /\ TruthyStr(u.goal) /\ TruthyStr(u.activity_level) /\ TruthyStr(u.gender)

\* @login_required
login_required(endpoint, view) ==
    IF ~is_authenticated
    THEN /\ response' = Unauthorized(endpoint)
         /\ UNCHANGED <<store, current_user, now, requests>>
    ELSE view

\* a decorator that lets every request through
account_complete_skipped(endpoint, view) == view

\* @account_complete
account_complete(endpoint, view) ==
    IF is_authenticated /\ ~profile_complete(User[current_user])
    THEN /\ response' = Redirect(endpoint, url_for("finish_account"))
         /\ UNCHANGED <<store, current_user, now, requests>>
    ELSE view

\* bcrypt.generate_password_hash / bcrypt.check_password_hash
generate_password_hash(password) == <<"bcrypt", password>>
check_password_hash(hash, password) == hash = generate_password_hash(password)

\* User.query.filter_by(email=email).first(): the id of the first match, 0 for None
UserByEmail(email) ==
    IF \E i \in Ids(User) : User[i].email = email
    THEN CHOOSE i \in Ids(User) : User[i].email = email /\ \A j \in 1 .. (i - 1) : User[j].email # email
    ELSE 0

(******************************** handlers ********************************)
index ==
    /\ response' = Render("index", <<>>)
    /\ UNCHANGED <<store, current_user, now, requests>>

register(email, password, valid) ==
    IF is_authenticated
    THEN /\ response' = Redirect("register", url_for("index"))
         /\ UNCHANGED <<store, current_user, now, requests>>
    ELSE IF valid
    THEN /\ UserByEmail(email) = 0  \* RegistrationForm refuses an address already registered
         /\ User' = Append(User, [email |-> email, password |-> generate_password_hash(password),
                                  height |-> NoneNum, weight |-> NoneNum, age |-> NoneNum,
                                  goal |-> NoneStr, activity_level |-> NoneStr, gender |-> NoneStr])
         /\ response' = Redirect("register", url_for("login"))
         /\ UNCHANGED <<UserCalories, UserCurrentDiet, UserCurrentDietMeals, DietCalories,
                        UserWeightOverTime, UserCaloriesOverTime, current_user, now, requests>>
    ELSE /\ response' = Render("register", <<>>)
         /\ UNCHANGED <<store, current_user, now, requests>>

\* a login that sends every user whose profile is complete to the index page
login_forgets_next(email, password, valid) ==
    IF is_authenticated
    THEN /\ response' = Redirect("login", url_for("index"))
         /\ UNCHANGED <<store, current_user, now, requests>>
    ELSE LET user == UserByEmail(email)
             next_page == NextArg
         IN IF valid /\ user # 0 /\ check_password_hash(User[user].password, password)
            THEN /\ current_user' = user
                 /\ response' = IF ~profile_complete(User[user])
                                THEN Redirect("login", url_for("finish_account"))
                                ELSE Redirect("login", url_for("index"))
                 /\ UNCHANGED <<store, now, requests>>
            ELSE /\ response' = [Render("login", <<>>) EXCEPT !.next = next_page]
                 /\ UNCHANGED <<store, current_user, now, requests>>

login(email, password, valid) ==
    IF is_authenticated
    THEN /\ response' = Redirect("login", url_for("index"))
         /\ UNCHANGED <<store, current_user, now, requests>>
    ELSE LET user == UserByEmail(email)
             next_page == NextArg
         IN IF valid /\ user # 0 /\ check_password_hash(User[user].password, password)
            THEN /\ current_user' = user
                 /\ response' = IF ~profile_complete(User[user])
                                THEN Redirect("login", url_for("finish_account"))
                                ELSE IF next_page # ""
                                THEN Redirect("login", next_page)
                                ELSE Redirect("login", url_for("index"))
                 /\ UNCHANGED <<store, now, requests>>
            ELSE /\ response' = [Render("login", <<>>) EXCEPT !.next = next_page]
                 /\ UNCHANGED <<store, current_user, now, requests>>

logout ==
    login_required("logout",
        /\ current_user' = 0
        /\ response' = Redirect("logout", url_for("index"))
        /\ UNCHANGED <<store, now, requests>>)

\* a finish_account that writes the profile and records no weight
finish_account_unrecorded(form, valid) ==
    login_required("finish_account",
        IF \E i \in Ids(UserCalories) : UserCalories[i].user_id = current_user
        THEN /\ response' = Redirect("finish_account", url_for("index"))
             /\ UNCHANGED <<store, current_user, now, requests>>
        ELSE IF valid
        THEN /\ User' = [User EXCEPT ![current_user] =
                            [@ EXCEPT !.height = form.height, !.weight = form.weight, !.age = form.age,
                                      !.goal = form.goal, !.activity_level = form.activity_level,
                                      !.gender = form.gender]]
             /\ response' = Redirect("finish_account", url_for("get_calories"))
             /\ UNCHANGED <<UserCalories, UserCurrentDiet, UserCurrentDietMeals, DietCalories,
                            UserWeightOverTime, UserCaloriesOverTime, current_user, now, requests>>
        ELSE /\ response' = Render("finish_account", <<>>)
             /\ UNCHANGED <<store, current_user, now, requests>>)

finish_account(form, valid) ==
    login_required("finish_account",
        IF \E i \in Ids(UserCalories) : UserCalories[i].user_id = current_user
        THEN /\ response' = Redirect("finish_account", url_for("index"))
             /\ UNCHANGED <<store, current_user, now, requests>>
        ELSE IF valid
        THEN /\ Len(Recent(UserWeightOverTime)) < MaxSamples
             /\ User' = [User EXCEPT ![current_user] =
                            [@ EXCEPT !.height = form.height, !.weight = form.weight, !.age = form.age,
                                      !.goal = form.goal, !.activity_level = form.activity_level,
                                      !.gender = form.gender]]
             /\ UserWeightOverTime' = Append(UserWeightOverTime,
                                             [user_id |-> current_user, weight |-> form.weight, created_at |-> now])
             /\ response' = Redirect("finish_account", url_for("get_calories"))
             /\ UNCHANGED <<UserCalories, UserCurrentDiet, UserCurrentDietMeals, DietCalories,
                            UserCaloriesOverTime, current_user, now, requests>>
        ELSE /\ response' = Render("finish_account", <<>>)
             /\ UNCHANGED <<store, current_user, now, requests>>)

\* an account update that keeps only the newest weight of the user
account_replaces(email, form, valid) ==
    login_required("account",
        IF valid
        THEN LET weight_changed == User[current_user].weight # form.weight
             IN /\ UserByEmail(email) \in {0, current_user}
                /\ weight_changed => Len(Recent(UserWeightOverTime)) < MaxSamples
                /\ User' = [User EXCEPT ![current_user] =
                               [@ EXCEPT !.email = email, !.height = form.height, !.weight = form.weight,
                                         !.age = form.age, !.goal = form.goal,
                                         !.activity_level = form.activity_level, !.gender = form.gender]]
                /\ UserWeightOverTime' =
                       IF weight_changed
                       THEN Append(Filter(UserWeightOverTime, LAMBDA row : row.user_id # current_user),
                                   [user_id |-> current_user, weight |-> form.weight, created_at |-> now])
                       ELSE UserWeightOverTime
                /\ response' = Redirect("account", url_for("get_calories"))
                /\ UNCHANGED <<UserCalories, UserCurrentDiet, UserCurrentDietMeals, DietCalories,
                               UserCaloriesOverTime, current_user, now, requests>>
        ELSE /\ response' = Render("account", <<>>)
             /\ UNCHANGED <<store, current_user, now, requests>>)

account(email, form, valid) ==
    login_required("account",
        IF valid
        THEN LET weight_changed == User[current_user].weight # form.weight
             IN /\ UserByEmail(email) \in {0, current_user}  \* UpdateAccountForm refuses another user's address
                /\ weight_changed => Len(Recent(UserWeightOverTime)) < MaxSamples
                /\ User' = [User EXCEPT ![current_user] =
                               [@ EXCEPT !.email = email, !.height = form.height, !.weight = form.weight,
                                         !.age = form.age, !.goal = form.goal,
                                         !.activity_level = form.activity_level, !.gender = form.gender]]
                /\ UserWeightOverTime' =
                       IF weight_changed
                       THEN Append(UserWeightOverTime,
                                   [user_id |-> current_user, weight |-> form.weight, created_at |-> now])
                       ELSE UserWeightOverTime
                /\ response' = Redirect("account", url_for("get_calories"))
                /\ UNCHANGED <<UserCalories, UserCurrentDiet, UserCurrentDietMeals, DietCalories,
                               UserCaloriesOverTime, current_user, now, requests>>
        ELSE /\ response' = Render("account", <<>>)
             /\ UNCHANGED <<store, current_user, now, requests>>)

\* Python 3 round(): to the nearest integer, a tie to the even one; x counts 1/40000
round(x) ==
    LET q == x \div 40000
        r == x % 40000
    IN IF 2 * r > 40000 \/ (2 * r = 40000 /\ q % 2 = 1) THEN q + 1 ELSE q

\* BMR with the weight and height coefficients of the Female branch exchanged
BMR_swapped(u) ==
    CASE u.gender = "Male" -> 66470 + (13750 * u.weight) + (5003 * u.height) - (6755 * u.age)
      [] u.gender = "Female" -> 655100 + (1850 * u.weight) + (9563 * u.height) - (4676 * u.age)

\* BMR in thousandths; no branch for another gender: the code leaves BMR unbound
BMR(u) ==
    CASE u.gender = "Male" -> 66470 + (13750 * u.weight) + (5003 * u.height) - (6755 * u.age)
      [] u.gender = "Female" -> 655100 + (9563 * u.weight) + (1850 * u.height) - (4676 * u.age)

\* AMR in 1/40000: the multipliers 1.2, 1.375, 1.55, 1.725, 1.9 are 48, 55, 62, 69, 76 fortieths
AMR(u) ==
    CASE u.activity_level = "Sedentary" -> BMR(u) * 48
      [] u.activity_level = "Lightly Active" -> BMR(u) * 55
      [] u.activity_level = "Moderately Active" -> BMR(u) * 62
      [] u.activity_level = "Very Active" -> BMR(u) * 69
      [] u.activity_level = "Extra Active" -> BMR(u) * 76

\* a name read before any branch bound it: UnboundLocalError
calculate_calories_raises(u) ==
    \/ u.gender \notin {"Male", "Female"}
    \/ u.activity_level \notin {"Sedentary", "Lightly Active", "Moderately Active", "Very Active", "Extra Active"}
    \/ u.goal \notin {"Lose Weight", "Maintain Weight", "Gain Weight"}

calculate_calories(u) ==
    round(CASE u.goal = "Lose Weight" -> AMR(u) - 500 * 40000
            [] u.goal = "Maintain Weight" -> AMR(u)
            [] u.goal = "Gain Weight" -> AMR(u) + 500 * 40000)

\* get_calories without lines 253-254: the old row is kept beside the new one
get_calories_keeps ==
    login_required("get_calories", account_complete("get_calories",
        /\ ~calculate_calories_raises(User[current_user])
        /\ UserCalories' = Append(UserCalories, [user_id |-> current_user,
                                                 calories |-> calculate_calories(User[current_user])])
        /\ response' = Render("get_calories", <<calculate_calories(User[current_user])>>)
        /\ UNCHANGED <<User, UserCurrentDiet, UserCurrentDietMeals, DietCalories,
                       UserWeightOverTime, UserCaloriesOverTime, current_user, now, requests>>))

get_calories ==
    login_required("get_calories", account_complete("get_calories",
        IF calculate_calories_raises(User[current_user])
        THEN /\ response' = ServerError("get_calories", "UnboundLocalError")
             /\ UNCHANGED <<store, current_user, now, requests>>
        ELSE LET calories == calculate_calories(User[current_user])
                 kept == IF \E i \in Ids(UserCalories) : UserCalories[i].user_id = current_user
                         THEN Filter(UserCalories, LAMBDA row : row.user_id # current_user)
                         ELSE UserCalories
             IN /\ UserCalories' = Append(kept, [user_id |-> current_user, calories |-> calories])
                /\ response' = Render("get_calories", <<calories>>)
                /\ UNCHANGED <<User, UserCurrentDiet, UserCurrentDietMeals, DietCalories,
                               UserWeightOverTime, UserCaloriesOverTime, current_user, now, requests>>))

(***************************** the meal catalog ****************************)
\* table Meals (read only): row id = position
Meals == <<[calories |-> 300, label |-> "Breakfast"],
           [calories |-> 500, label |-> "Lunch"],
           [calories |-> 600, label |-> "Dinner"]>>

\* what choose_meals_for_user may return: <<breakfast, lunch, dinner>>, each a <<meal id, serving>>
MealPlans ==
    {<<<<1, 1>>, <<2, 1>>, <<3, 1>>>>,
     <<<<1, 2>>, <<2, 1>>, <<3, 2>>>>}

\* UserCurrentDiet.query.filter_by(user_id=user).first(): the id of the first match, 0 for None
DietOf(user) ==
    IF \E i \in Ids(UserCurrentDiet) : UserCurrentDiet[i].user_id = user
    THEN CHOOSE i \in Ids(UserCurrentDiet) :
            /\ UserCurrentDiet[i].user_id = user
            /\ \A j \in 1 .. (i - 1) : UserCurrentDiet[j].user_id # user
    ELSE 0

HasCalories(user) == \E i \in Ids(UserCalories) : UserCalories[i].user_id = user

\* the three UserCurrentDietMeals rows and the DietCalories row get_meals builds
DietMealRows(diet, plan) ==
    [k \in 1 .. 3 |-> [user_current_diet_id |-> diet, meal_id |-> plan[k][1], serving_size |-> plan[k][2]]]

DietCaloriesRow(diet, plan) ==
    [user_current_diet_id |-> diet,
     calories |-> Meals[plan[1][1]].calories * plan[1][2] + Meals[plan[2][1]].calories * plan[2][2]
                  + Meals[plan[3][1]].calories * plan[3][2]]

\* get_meals without lines 276-277: the rows of the previous diet are kept
get_meals_accumulates(plan) ==
    login_required("get_meals", account_complete("get_meals",
        IF ~HasCalories(current_user)
        THEN /\ response' = Redirect("get_meals", url_for("get_calories"))
             /\ UNCHANGED <<store, current_user, now, requests>>
        ELSE LET found == DietOf(current_user)
                 diet == IF found # 0 THEN found ELSE Len(UserCurrentDiet) + 1
             IN /\ Len(UserCurrentDietMeals) < 9
                /\ UserCurrentDiet' = IF found # 0 THEN UserCurrentDiet
                                      ELSE Append(UserCurrentDiet, [user_id |-> current_user])
                /\ UserCurrentDietMeals' = UserCurrentDietMeals \o DietMealRows(diet, plan)
                /\ DietCalories' = Append(DietCalories, DietCaloriesRow(diet, plan))
                /\ response' = Redirect("get_meals", url_for("show_meals"))
                /\ UNCHANGED <<User, UserCalories, UserWeightOverTime, UserCaloriesOverTime,
                               current_user, now, requests>>))

get_meals(plan) ==
    login_required("get_meals", account_complete("get_meals",
        IF ~HasCalories(current_user)
        THEN /\ response' = Redirect("get_meals", url_for("get_calories"))
             /\ UNCHANGED <<store, current_user, now, requests>>
        ELSE LET found == DietOf(current_user)
                 diet == IF found # 0 THEN found ELSE Len(UserCurrentDiet) + 1
             IN /\ UserCurrentDiet' = IF found # 0 THEN UserCurrentDiet
                                      ELSE Append(UserCurrentDiet, [user_id |-> current_user])
                /\ UserCurrentDietMeals' =
                       Filter(UserCurrentDietMeals, LAMBDA row : row.user_current_diet_id # diet)
                       \o DietMealRows(diet, plan)
                /\ DietCalories' =
                       Append(Filter(DietCalories, LAMBDA row : row.user_current_diet_id # diet),
                              DietCaloriesRow(diet, plan))
                /\ response' = Redirect("get_meals", url_for("show_meals"))
                /\ UNCHANGED <<User, UserCalories, UserWeightOverTime, UserCaloriesOverTime,
                               current_user, now, requests>>))

\* DietCalories.query.filter_by(user_current_diet_id=diet).first(): calories, NoneNum for None
DietCaloriesOf(diet) ==
    LET rows == Filter(DietCalories, LAMBDA row : row.user_current_diet_id = diet)
    IN IF rows = <<>> THEN NoneNum ELSE rows[1].calories

show_meals ==
    login_required("show_meals", account_complete("show_meals",
        /\ response' =
              IF DietOf(current_user) # 0
              THEN LET diet == DietOf(current_user)
                       user_current_meals ==
                           Filter(UserCurrentDietMeals, LAMBDA row : row.user_current_diet_id = diet)
                   IN Render("show_meals",
                             <<[k \in Ids(user_current_meals) |-> user_current_meals[k].meal_id],
                               [k \in Ids(user_current_meals) |-> user_current_meals[k].serving_size],
                               [k \in Ids(user_current_meals) |-> Meals[user_current_meals[k].meal_id].label],
                               DietCaloriesOf(diet)>>)
              ELSE Redirect("show_meals", url_for("get_meals"))
        /\ UNCHANGED <<store, current_user, now, requests>>))

save_calories ==
    login_required("save_calories", account_complete("save_calories",
        LET user_current_diet == DietOf(current_user)
        IN IF user_current_diet = 0 \/ DietCaloriesOf(user_current_diet) = NoneNum
           THEN \* user_current_diet.id or calories.calories of None
                /\ response' = ServerError("save_calories", "AttributeError")
                /\ UNCHANGED <<store, current_user, now, requests>>
           ELSE /\ Len(Recent(UserCaloriesOverTime)) < MaxSamples
                /\ UserCaloriesOverTime' =
                       Append(UserCaloriesOverTime,
                              [user_id |-> current_user, calories |-> DietCaloriesOf(user_current_diet),
                               created_at |-> now])
                /\ response' = Redirect("save_calories", url_for("index"))
                /\ UNCHANGED <<User, UserCalories, UserCurrentDiet, UserCurrentDietMeals, DietCalories,
                               UserWeightOverTime, current_user, now, requests>>))

(****************************** history queries ****************************)
\* form.time.data of a submitted filter form; NoneStr: no form submitted
CaloriesTimeFrames == {"1 Week", "2 Weeks", "3 Weeks", "1 Month"}
WeightTimeFrames == {"1 Week", "2 Weeks", "3 Weeks", "1 Month", "3 Months", "6 Months", "1 Year"}

\* datetime.timedelta(days=...) of each branch
WindowDays(time_frame) ==
    CASE time_frame = "1 Week" -> 7
      [] time_frame = "2 Weeks" -> 14
      [] time_frame = "3 Weeks" -> 21
      [] time_frame = "1 Month" -> 30
      [] time_frame = "3 Months" -> 90
      [] time_frame = "6 Months" -> 180
      [] time_frame = "1 Year" -> 365

\* created_at.strftime("%m/%d"): day 0 is January 1st of a year of 365 days
MonthLengths == <<31, 28, 31, 30, 31, 30, 31, 31, 30, 31, 30, 31>>

RECURSIVE MonthDay(_, _)
MonthDay(month, day) ==
    IF day < MonthLengths[month] THEN <<month, day + 1>> ELSE MonthDay(month + 1, day - MonthLengths[month])

strftime(created_at) == MonthDay(1, created_at % 365)

\* round(a / b) of Python 3: a tie goes to the even integer
round_div(a, b) ==
    LET q == a \div b
        r == a % b
    IN IF 2 * r > b \/ (2 * r = b /\ q % 2 = 1) THEN q + 1 ELSE q

\* ...query.filter_by(user_id=user).filter(created_at >= now - timedelta(days=days)).all()
Window(table, user, days) ==
    Filter(table, LAMBDA row : row.user_id = user /\ row.created_at >= now - days)

show_calories(time_frame) ==
    login_required("show_calories", account_complete("show_calories",
        /\ response' =
              IF ~HasCalories(current_user)
              THEN Redirect("show_calories", url_for("show-meals"))
              ELSE LET frame == IF time_frame = NoneStr THEN "1 Week" ELSE time_frame
                       calories == Window(UserCaloriesOverTime, current_user, WindowDays(frame))
                       labels == [k \in Ids(calories) |-> strftime(calories[k].created_at)]
                       values == [k \in Ids(calories) |-> calories[k].calories]
                       recommended_intake ==
                           Filter(UserCalories, LAMBDA row : row.user_id = current_user)[1].calories
                   IN IF Len(values) = 0
                      THEN Redirect("show_calories", url_for("show-calories"))
                      ELSE Render("show_calories",
                                  <<frame, labels, values, recommended_intake,
                                    round_div(SumSeq(values), Len(values))>>)
        /\ UNCHANGED <<store, current_user, now, requests>>))

show_weight(time_frame) ==
    login_required("show_weight", account_complete("show_weight",
        /\ response' =
              LET frame == IF time_frame = NoneStr THEN "1 Month" ELSE time_frame
                  weights == Window(UserWeightOverTime, current_user, WindowDays(frame))
                  labels == [k \in Ids(weights) |-> strftime(weights[k].created_at)]
                  values == [k \in Ids(weights) |-> weights[k].weight]
              IN Render("show_weight", <<frame, labels, values>>)
        /\ UNCHANGED <<store, current_user, now, requests>>))

(****************************** password reset *****************************)
\* a reset token as presented: the user id it embeds, and whether signature and expiry check
Tokens == [user_id : 1 .. Cardinality(Emails), intact : BOOLEAN]

\* User.verify_reset_token(token): the user, 0 for None
verify_reset_token(token) ==
    IF token.intact /\ token.user_id \in Ids(User) THEN token.user_id ELSE 0

reset_request(email, valid) ==
    /\ response' =
          IF is_authenticated
          THEN Redirect("reset_request", url_for("index"))
          ELSE IF valid
          THEN IF UserByEmail(email) = 0
               THEN ServerError("reset_request", "AttributeError")  \* user.get_reset_token() of None
               ELSE Redirect("reset_request", url_for("login"))
          ELSE Render("reset_request", <<>>)
    /\ UNCHANGED <<store, current_user, now, requests>>

reset_token(token, password, valid) ==
    IF is_authenticated
    THEN /\ response' = Redirect("reset_token", url_for("index"))
         /\ UNCHANGED <<store, current_user, now, requests>>
    ELSE LET user == verify_reset_token(token)
         IN IF user = 0
            THEN /\ response' = Redirect("reset_token", url_for("reset_request"))
                 /\ UNCHANGED <<store, current_user, now, requests>>
            ELSE IF valid
            THEN /\ User' = [User EXCEPT ![user].password = generate_password_hash(password)]
                 /\ response' = Redirect("reset_token", url_for("login"))
                 /\ UNCHANGED <<UserCalories, UserCurrentDiet, UserCurrentDietMeals, DietCalories,
                                UserWeightOverTime, UserCaloriesOverTime, current_user, now, requests>>
            ELSE /\ response' = Render("reset_token", <<>>)
                 /\ UNCHANGED <<store, current_user, now, requests>>

(********************************* the clock *******************************)
Tick ==
    /\ now < MaxTicks * DayStep
    /\ now' = now + DayStep
    /\ UNCHANGED <<store, current_user, response, requests>>

(***************************** the application *****************************)
NoResponse == [endpoint |-> "", kind |-> "", location |-> "", next |-> "", data |-> <<>>]

\* a request slot with no request in it
Idle == [pc |-> "idle", calories |-> 0, plan |-> <<>>, diet |-> 0, dirty |-> FALSE]

\* the profiles the forms submit
FormProfiles ==
    {[height |-> 175, weight |-> 70, age |-> 30, goal |-> "Maintain Weight",
      activity_level |-> "Moderately Active", gender |-> "Male"],
     [height |-> 175, weight |-> 70, age |-> 30, goal |-> "Lose Weight",
      activity_level |-> "Sedentary", gender |-> "Female"],
     [height |-> 175, weight |-> 80, age |-> 30, goal |-> "Gain Weight",
      activity_level |-> "Very Active", gender |-> "Female"]}

(************** get_calories and get_meals, statement by statement *********)
\* Two requests of one session run their handlers interleaved: every query,
\* bulk delete and commit acts on the store when its statement executes;
\* db.session.add only queues rows, which the next commit inserts.
Requests == 1 .. NumRequests

\* line 252, behind the decorators
get_calories_calc(r) ==
    /\ requests[r].pc = "idle"
    /\ login_required("get_calories", account_complete("get_calories",
        IF calculate_calories_raises(User[current_user])
        THEN /\ response' = ServerError("get_calories", "UnboundLocalError")
             /\ UNCHANGED <<store, current_user, now, requests>>
        ELSE /\ requests' = [requests EXCEPT ![r] =
                                [Idle EXCEPT !.pc = "gc_query",
                                             !.calories = calculate_calories(User[current_user])]]
             /\ UNCHANGED <<store, current_user, now, response>>))

\* line 253
get_calories_query(r) ==
    /\ requests[r].pc = "gc_query"
    /\ requests' = [requests EXCEPT ![r].pc = IF HasCalories(current_user) THEN "gc_delete" ELSE "gc_add"]
    /\ UNCHANGED <<store, current_user, now, response>>

\* line 254
get_calories_delete(r) ==
    /\ requests[r].pc = "gc_delete"
    /\ UserCalories' = Filter(UserCalories, LAMBDA row : row.user_id # current_user)
    /\ requests' = [requests EXCEPT ![r].pc = "gc_add", ![r].dirty = TRUE]
    /\ UNCHANGED <<User, UserCurrentDiet, UserCurrentDietMeals, DietCalories,
                   UserWeightOverTime, UserCaloriesOverTime, current_user, now, response>>

\* lines 255-256
get_calories_add(r) ==
    /\ requests[r].pc = "gc_add"
    /\ requests' = [requests EXCEPT ![r].pc = "gc_commit"]
    /\ UNCHANGED <<store, current_user, now, response>>

\* a commit that first removes the rows the user has at that moment
get_calories_commit_upsert(r) ==
    /\ requests[r].pc = "gc_commit"
    /\ UserCalories' = Append(Filter(UserCalories, LAMBDA row : row.user_id # current_user),
                              [user_id |-> current_user, calories |-> requests[r].calories])
    /\ response' = Render("get_calories", <<requests[r].calories>>)
    /\ requests' = [requests EXCEPT ![r] = Idle]
    /\ UNCHANGED <<User, UserCurrentDiet, UserCurrentDietMeals, DietCalories,
                   UserWeightOverTime, UserCaloriesOverTime, current_user, now>>

\* lines 257-258
get_calories_commit(r) ==
    /\ requests[r].pc = "gc_commit"
    /\ UserCalories' = Append(UserCalories, [user_id |-> current_user, calories |-> requests[r].calories])
    /\ response' = Render("get_calories", <<requests[r].calories>>)
    /\ requests' = [requests EXCEPT ![r] = Idle]
    /\ UNCHANGED <<User, UserCurrentDiet, UserCurrentDietMeals, DietCalories,
                   UserWeightOverTime, UserCaloriesOverTime, current_user, now>>

\* lines 268-273, behind the decorators
get_meals_choose(r, plan) ==
    /\ requests[r].pc = "idle"
    /\ login_required("get_meals", account_complete("get_meals",
        IF ~HasCalories(current_user)
        THEN /\ response' = Redirect("get_meals", url_for("get_calories"))
             /\ UNCHANGED <<store, current_user, now, requests>>
        ELSE /\ requests' = [requests EXCEPT ![r] = [Idle EXCEPT !.pc = "gm_query", !.plan = plan]]
             /\ UNCHANGED <<store, current_user, now, response>>))

\* lines 274-275
get_meals_query(r) ==
    /\ requests[r].pc = "gm_query"
    /\ requests' = [requests EXCEPT ![r].pc = IF DietOf(current_user) # 0 THEN "gm_delete_meals" ELSE "gm_create",
                                    ![r].diet = DietOf(current_user)]
    /\ UNCHANGED <<store, current_user, now, response>>

\* line 276
get_meals_delete_meals(r) ==
    /\ requests[r].pc = "gm_delete_meals"
    /\ UserCurrentDietMeals' =
           Filter(UserCurrentDietMeals, LAMBDA row : row.user_current_diet_id # requests[r].diet)
    /\ requests' = [requests EXCEPT ![r].pc = "gm_delete_calories", ![r].dirty = TRUE]
    /\ UNCHANGED <<User, UserCalories, UserCurrentDiet, DietCalories,
                   UserWeightOverTime, UserCaloriesOverTime, current_user, now, response>>

\* line 277
get_meals_delete_calories(r) ==
    /\ requests[r].pc = "gm_delete_calories"
    /\ DietCalories' = Filter(DietCalories, LAMBDA row : row.user_current_diet_id # requests[r].diet)
    /\ requests' = [requests EXCEPT ![r].pc = "gm_add", ![r].dirty = TRUE]
    /\ UNCHANGED <<User, UserCalories, UserCurrentDiet, UserCurrentDietMeals,
                   UserWeightOverTime, UserCaloriesOverTime, current_user, now, response>>

\* lines 279-281: the new UserCurrentDiet row is committed on its own
get_meals_create(r) ==
    /\ requests[r].pc = "gm_create"
    /\ UserCurrentDiet' = Append(UserCurrentDiet, [user_id |-> current_user])
    /\ requests' = [requests EXCEPT ![r].pc = "gm_add", ![r].diet = Len(UserCurrentDiet) + 1]
    /\ UNCHANGED <<User, UserCalories, UserCurrentDietMeals, DietCalories,
                   UserWeightOverTime, UserCaloriesOverTime, current_user, now, response>>

\* lines 283-290
get_meals_add(r) ==
    /\ requests[r].pc = "gm_add"
    /\ requests' = [requests EXCEPT ![r].pc = "gm_commit"]
    /\ UNCHANGED <<store, current_user, now, response>>

\* lines 291-292
get_meals_commit(r) ==
    /\ requests[r].pc = "gm_commit"
    /\ UserCurrentDietMeals' = UserCurrentDietMeals \o DietMealRows(requests[r].diet, requests[r].plan)
    /\ DietCalories' = Append(DietCalories, DietCaloriesRow(requests[r].diet, requests[r].plan))
    /\ response' = Redirect("get_meals", url_for("show_meals"))
    /\ requests' = [requests EXCEPT ![r] = Idle]
    /\ UNCHANGED <<User, UserCalories, UserCurrentDiet, UserWeightOverTime, UserCaloriesOverTime,
                   current_user, now>>

\* no request holds a bulk delete it has not committed yet
Committed == \A r \in Requests : ~requests[r].dirty

Init ==
    /\ User = <<>>
    /\ UserCalories = <<>>
    /\ UserCurrentDiet = <<>>
    /\ UserCurrentDietMeals = <<>>
    /\ DietCalories = <<>>
    /\ UserWeightOverTime = <<>>
    /\ UserCaloriesOverTime = <<>>
    /\ current_user = 0
    /\ now = 0
    /\ response = NoResponse
    /\ requests = [r \in 1 .. NumRequests |-> Idle]

Next ==
    \/ index
    \/ \E email \in Emails, password \in Passwords, valid \in BOOLEAN : register(email, password, valid)
    \/ \E email \in Emails, password \in Passwords, valid \in BOOLEAN : login(email, password, valid)
    \/ logout
    \/ \E form \in FormProfiles, valid \in BOOLEAN : finish_account(form, valid)
    \/ \E email \in Emails, form \in FormProfiles, valid \in BOOLEAN : account(email, form, valid)
    \/ get_calories
    \/ \E plan \in MealPlans : get_meals(plan)
    \/ show_meals
    \/ save_calories
    \/ \E time_frame \in CaloriesTimeFrames \cup {NoneStr} : show_calories(time_frame)
    \/ \E time_frame \in WeightTimeFrames \cup {NoneStr} : show_weight(time_frame)
    \/ \E email \in Emails, valid \in BOOLEAN : reset_request(email, valid)
    \/ \E token \in Tokens, password \in Passwords, valid \in BOOLEAN : reset_token(token, password, valid)
    \/ Tick

Spec == Init /\ [][Next]_vars

(*********** the interleaved requests of one user: SpecConc ****************)
\* a user who registered, logged in and completed the profile
CompleteUser(email, form) ==
    [email |-> email, password |-> generate_password_hash("pw1"),
     height |-> form.height, weight |-> form.weight, age |-> form.age, goal |-> form.goal,
     activity_level |-> form.activity_level, gender |-> form.gender]

InitConc ==
    /\ \E form \in FormProfiles :
          /\ User = <<CompleteUser("a@x", form)>>
          /\ UserWeightOverTime = <<[user_id |-> 1, weight |-> form.weight, created_at |-> 0]>>
    /\ UserCalories = <<>>
    /\ UserCurrentDiet = <<>>
    /\ UserCurrentDietMeals = <<>>
    /\ DietCalories = <<>>
    /\ UserCaloriesOverTime = <<>>
    /\ current_user = 1
    /\ now = 0
    /\ response = Redirect("finish_account", url_for("get_calories"))
    /\ requests = [r \in Requests |-> Idle]

NextConc ==
    \E r \in Requests :
        \/ get_calories_calc(r)
        \/ get_calories_query(r)
        \/ get_calories_delete(r)
        \/ get_calories_add(r)
        \/ get_calories_commit(r)
        \/ \E plan \in MealPlans : get_meals_choose(r, plan)
        \/ get_meals_query(r)
        \/ get_meals_delete_meals(r)
        \/ get_meals_delete_calories(r)
        \/ get_meals_create(r)
        \/ get_meals_add(r)
        \/ get_meals_commit(r)

SpecConc == InitConc /\ [][NextConc]_vars

(************ two users with completed profiles: SpecDiet ******************)
InitDiet ==
    /\ \E first \in FormProfiles, second \in FormProfiles :
          /\ User = <<CompleteUser("a@x", first), CompleteUser("b@x", second)>>
          /\ UserWeightOverTime = <<[user_id |-> 1, weight |-> first.weight, created_at |-> 0],
                                    [user_id |-> 2, weight |-> second.weight, created_at |-> 0]>>
    /\ UserCalories = <<>>
    /\ UserCurrentDiet = <<>>
    /\ UserCurrentDietMeals = <<>>
    /\ DietCalories = <<>>
    /\ UserCaloriesOverTime = <<>>
    /\ current_user = 0
    /\ now = 0
    /\ response = Redirect("logout", url_for("index"))
    /\ requests = [r \in Requests |-> Idle]

NextDiet ==
    \/ \E email \in Emails, password \in Passwords, valid \in BOOLEAN : login(email, password, valid)
    \/ logout
    \/ \E form \in FormProfiles, valid \in BOOLEAN : finish_account(form, valid)
    \/ \E email \in Emails, form \in FormProfiles, valid \in BOOLEAN : account(email, form, valid)
    \/ get_calories
    \/ \E plan \in MealPlans : get_meals(plan)
    \/ show_meals
    \/ save_calories

SpecDiet == InitDiet /\ [][NextDiet]_vars

(******************** the calculator on its own: SpecCalc ******************)
CalcWeights == {55, 70, 90}
CalcHeights == {160, 175, 190}
CalcAges == {20, 30, 60}

CalcProfiles ==
    [height : CalcHeights, weight : CalcWeights, age : CalcAges, goal : Goals,
     activity_level : ActivityLevels, gender : Genders]

InitCalc ==
    /\ \E form \in CalcProfiles :
          /\ User = <<CompleteUser("a@x", form)>>
          /\ UserWeightOverTime = <<[user_id |-> 1, weight |-> form.weight, created_at |-> 0]>>
    /\ UserCalories = <<>>
    /\ UserCurrentDiet = <<>>
    /\ UserCurrentDietMeals = <<>>
    /\ DietCalories = <<>>
    /\ UserCaloriesOverTime = <<>>
    /\ current_user = 1
    /\ now = 0
    /\ response = Redirect("finish_account", url_for("get_calories"))
    /\ requests = [r \in Requests |-> Idle]

NextCalc == get_calories

SpecCalc == InitCalc /\ [][NextCalc]_vars

(******************** the history queries: SpecHistory *********************)
\* how old the recorded samples are, in days: each window's last day inside and first day outside
SampleAges == {0, 7, 8, 14, 15, 21, 22, 30, 31, 90, 91, 180, 181, 365, 366}

\* Two users completed their profiles on two days; the first changed weight
\* on a third. Each chose meals, and the first none, one, two or three of
\* those three days ended with that day's user saving the calories.
InitHistory ==
    /\ \E first \in {1, 2}, oldest \in SampleAges, older \in SampleAges, newer \in SampleAges,
          saved \in 0 .. 3 :
          LET form == CHOOSE f \in FormProfiles : f.gender = "Male"
              plan == CHOOSE p \in MealPlans : p[1][2] = 1
              other == CHOOSE p \in MealPlans : p[1][2] # 1
              second == 3 - first
              days == <<HistNow - oldest, HistNow - older, HistNow - newer>>
              users == <<first, second, first>>
              weights == <<form.weight + 10, form.weight, form.weight>>
              plans == <<other, plan, plan>>
          IN /\ oldest >= older /\ older >= newer
             /\ User = <<CompleteUser("a@x", form), CompleteUser("b@x", form)>>
             /\ UserCalories = [k \in 1 .. 2 |-> [user_id |-> users[k], calories |-> calculate_calories(form)]]
             /\ UserCurrentDiet = [k \in 1 .. 2 |-> [user_id |-> users[k]]]
             /\ UserCurrentDietMeals = DietMealRows(1, plan) \o DietMealRows(2, plan)
             /\ DietCalories = <<DietCaloriesRow(1, plan), DietCaloriesRow(2, plan)>>
             /\ UserWeightOverTime =
                    [k \in 1 .. 3 |-> [user_id |-> users[k], weight |-> weights[k], created_at |-> days[k]]]
             /\ UserCaloriesOverTime =
                    [k \in 1 .. saved |->
                        [user_id |-> users[k], calories |-> DietCaloriesRow(k, plans[k]).calories,
                         created_at |-> days[k]]]
    /\ current_user \in {1, 2}
    /\ now = HistNow
    /\ response = Redirect("login", url_for("index"))
    /\ requests = [r \in Requests |-> Idle]

NextHistory ==
    \/ \E time_frame \in CaloriesTimeFrames \cup {NoneStr} : show_calories(time_frame)
    \/ \E time_frame \in WeightTimeFrames \cup {NoneStr} : show_weight(time_frame)

SpecHistory == InitHistory /\ [][NextHistory]_vars

(*********** a session over logs that hold older samples: SpecLog **********)
\* Two users registered some time ago and the first is logged in. The second
\* completed the profile; the first either has only registered, or completed
\* the profile too and has, or has not yet, a target, a diet and a saved
\* calorie sample.
InitLog ==
    /\ \E saved \in 0 .. 1, fresh \in BOOLEAN :
          LET plan == CHOOSE p \in MealPlans : p[1][2] = 1
              first == CHOOSE f \in FormProfiles : f.gender = "Male"
              second == CHOOSE f \in FormProfiles : f.goal = "Lose Weight"
              registered == [email |-> "a@x", password |-> generate_password_hash("pw1"),
                             height |-> NoneNum, weight |-> NoneNum, age |-> NoneNum,
                             goal |-> NoneStr, activity_level |-> NoneStr, gender |-> NoneStr]
          IN /\ fresh => saved = 0
             /\ User = <<IF fresh THEN registered ELSE CompleteUser("a@x", first),
                         CompleteUser("b@x", second)>>
             /\ UserWeightOverTime =
                    (IF fresh THEN <<>> ELSE <<[user_id |-> 1, weight |-> first.weight, created_at |-> 0]>>)
                    \o <<[user_id |-> 2, weight |-> second.weight, created_at |-> DayStep]>>
             /\ UserCalories = [k \in 1 .. saved |-> [user_id |-> 1, calories |-> calculate_calories(first)]]
             /\ UserCurrentDiet = [k \in 1 .. saved |-> [user_id |-> 1]]
             /\ UserCurrentDietMeals = IF saved = 1 THEN DietMealRows(1, plan) ELSE <<>>
             /\ DietCalories = [k \in 1 .. saved |-> DietCaloriesRow(1, plan)]
             /\ UserCaloriesOverTime =
                    [k \in 1 .. saved |->
                        [user_id |-> 1, calories |-> DietCaloriesRow(1, plan).calories, created_at |-> DayStep]]
             /\ response = Redirect("login", url_for(IF fresh THEN "finish_account" ELSE "index"))
    /\ current_user = 1
    /\ now = HistNow
    /\ requests = [r \in Requests |-> Idle]

NextLog ==
    \/ index
    \/ \E email \in Emails, password \in Passwords, valid \in BOOLEAN : register(email, password, valid)
    \/ \E email \in Emails, password \in Passwords, valid \in BOOLEAN : login(email, password, valid)
    \/ \E form \in FormProfiles, valid \in BOOLEAN : finish_account(form, valid)
    \/ \E email \in Emails, form \in FormProfiles, valid \in BOOLEAN : account(email, form, valid)
    \/ get_calories
    \/ \E plan \in MealPlans : get_meals(plan)
    \/ show_meals
    \/ save_calories
    \/ \E time_frame \in CaloriesTimeFrames \cup {NoneStr} : show_calories(time_frame)
    \/ \E time_frame \in WeightTimeFrames \cup {NoneStr} : show_weight(time_frame)
    \/ \E email \in Emails, valid \in BOOLEAN : reset_request(email, valid)
    \/ \E token \in Tokens, password \in Passwords, valid \in BOOLEAN : reset_token(token, password, valid)

SpecLog == InitLog /\ [][NextLog]_vars

(***************************************************************************)
(*                               The claims                                *)
(***************************************************************************)
RowsOf(table, user) == Filter(table, LAMBDA row : row.user_id = user)

\* the formula of the specification, in 1/40000: BMR by gender, times the
\* activity multiplier (in fortieths), plus the goal adjustment
C1_Target(u) ==
    LET bmr == IF u.gender = "Male"
               THEN 66470 + 13750 * u.weight + 5003 * u.height - 6755 * u.age
               ELSE 655100 + 9563 * u.weight + 1850 * u.height - 4676 * u.age
        multiplier == [Sedentary |-> 48, Lightly |-> 55, Moderately |-> 62, Very |-> 69, Extra |-> 76]
        level == CASE u.activity_level = "Sedentary" -> multiplier.Sedentary
                   [] u.activity_level = "Lightly Active" -> multiplier.Lightly
                   [] u.activity_level = "Moderately Active" -> multiplier.Moderately
                   [] u.activity_level = "Very Active" -> multiplier.Very
                   [] u.activity_level = "Extra Active" -> multiplier.Extra
        adjustment == CASE u.goal = "Lose Weight" -> 0 - 500
                        [] u.goal = "Maintain Weight" -> 0
                        [] u.goal = "Gain Weight" -> 500
    IN bmr * level + adjustment * 40000

\* n is x / 40000 rounded: an integer nearest to it, the even one of two
C1_Rounds(n, x) ==
    /\ n \in Int
    /\ 2 * (n * 40000 - x) <= 40000
    /\ 2 * (x - n * 40000) <= 40000
    /\ (2 * (n * 40000 - x) \in {40000, 0 - 40000}) => n % 2 = 0

C1_IsProfile(u, gender, weight, height, age, activity_level, goal) ==
    /\ u.gender = gender /\ u.weight = weight /\ u.height = height /\ u.age = age
    /\ u.activity_level = activity_level /\ u.goal = goal

\* C1: the target get_calories computes and stores for a profile with gender
\* Male or Female, one of the five activity levels and one of the three goals
\* is the integer round(BMR x multiplier + adjustment) of the specification's
\* formula, a function of the profile alone; the Male example gives 2638 and
\* the Female example 1310.
C1_Calculator ==
    \A i \in Ids(UserCalories) :
        LET u == User[UserCalories[i].user_id]
            calories == UserCalories[i].calories
        IN /\ C1_Rounds(calories, C1_Target(u))
           /\ response = Render("get_calories", <<calories>>)
           /\ C1_IsProfile(u, "Male", 70, 175, 30, "Moderately Active", "Maintain Weight") => calories = 2638
           /\ C1_IsProfile(u, "Female", 70, 175, 30, "Sedentary", "Lose Weight") => calories = 1310

C1_Witness ==
    /\ C1_IsProfile(User[1], "Female", 70, 175, 30, "Sedentary", "Lose Weight")
    /\ UserCalories = <<[user_id |-> 1, calories |-> 1310]>>

\* C2: every user has at most one UserCalories row after any sequence of
\* completed requests, and right after a completed get_calories the user has
\* exactly one row, holding calculate_calories of the profile as it is then
\* (the value the page shows); a target that existed before is gone.
C2_OneTarget ==
    /\ \A u \in Ids(User) : Len(RowsOf(UserCalories, u)) <= 1
    /\ (response.endpoint = "get_calories" /\ response.kind = "render") =>
          /\ RowsOf(UserCalories, current_user) =
                <<[user_id |-> current_user, calories |-> calculate_calories(User[current_user])]>>
          /\ response.data = <<calculate_calories(User[current_user])>>

\* get_calories has replaced a target: the diet shows that one existed before,
\* and the other user holds a target of their own
C2_Witness ==
    /\ response.endpoint = "get_calories" /\ response.kind = "render"
    /\ DietOf(current_user) # 0
    /\ \E other \in Ids(User) : other # current_user /\ HasCalories(other)

\* the calories of the meals a response or a table lists: the sum of meal.calories x serving
C3_Total(rows) == SumSeq([k \in Ids(rows) |-> Meals[rows[k].meal_id].calories * rows[k].serving_size])

\* a get_meals request of a user with a target, as the step from before it to after it
C3_Step ==
    \A plan \in MealPlans :
        (/\ is_authenticated
         /\ profile_complete(User[current_user])
         /\ HasCalories(current_user)
         /\ get_meals(plan))
        => LET diets == {d \in Ids(UserCurrentDiet') : UserCurrentDiet'[d].user_id = current_user}
           IN /\ Cardinality(diets) = 1
              /\ \A d \in diets :
                    LET meals == Filter(UserCurrentDietMeals', LAMBDA row : row.user_current_diet_id = d)
                        totals == Filter(DietCalories', LAMBDA row : row.user_current_diet_id = d)
                    IN /\ Len(meals) = 3
                       /\ \A k \in 1 .. 3 : /\ meals[k].meal_id = plan[k][1]
                                            /\ meals[k].serving_size = plan[k][2]
                       /\ Len(totals) = 1
                       /\ totals[1].calories = C3_Total(meals)
              /\ Len(UserCurrentDiet') = Len(UserCurrentDiet) + (IF DietOf(current_user) = 0 THEN 1 ELSE 0)
              /\ \A d \in Ids(UserCurrentDiet) \ diets :
                    /\ Filter(UserCurrentDietMeals', LAMBDA row : row.user_current_diet_id = d)
                          = Filter(UserCurrentDietMeals, LAMBDA row : row.user_current_diet_id = d)
                    /\ Filter(DietCalories', LAMBDA row : row.user_current_diet_id = d)
                          = Filter(DietCalories, LAMBDA row : row.user_current_diet_id = d)

\* C3: after every completed get_meals request of a user with a target, the first
\* or a later one, the user has exactly one UserCurrentDiet, that diet has
\* exactly the three UserCurrentDietMeals rows of the plan the selector
\* returned to this request (breakfast, lunch, dinner) and exactly one
\* DietCalories row, the sum of meal.calories x serving of the three; the
\* rows of other users' diets are as they were.
C3_NoAccumulation == [][C3_Step]_vars

\* get_meals has run at least twice for the user: the calories saved from an
\* earlier diet differ from those of the current one
C3_Witness ==
    /\ response = Redirect("get_meals", url_for("show_meals"))
    /\ \E i \in Ids(UserCaloriesOverTime) :
          /\ UserCaloriesOverTime[i].user_id = current_user
          /\ UserCaloriesOverTime[i].calories # DietCaloriesOf(DietOf(current_user))
    /\ Len(RowsOf(UserCurrentDiet, current_user)) = 1
    /\ Len(UserCurrentDiet) = 2

\* the rows of a table that belong to a diet
MealsOf(table, diet) == Filter(table, LAMBDA row : row.user_current_diet_id = diet)

\* C4: in every committed state of the store, the states committed between
\* the steps of one get_meals request included, every UserCurrentDiet that is
\* present owns exactly three UserCurrentDietMeals rows.
C4_ThreeMealsWhenCommitted ==
    Committed => \A d \in Ids(UserCurrentDiet) : Len(MealsOf(UserCurrentDietMeals, d)) = 3

\* what the commits of the interleaved requests write, whatever the store holds
\* at that moment: the queued rows are inserted next to the rows present
C5_Step ==
    \A r \in Requests :
        /\ (requests[r].pc = "gc_commit" /\ requests'[r].pc = "idle") =>
              RowsOf(UserCalories', current_user) =
                 Append(RowsOf(UserCalories, current_user),
                        [user_id |-> current_user, calories |-> requests[r].calories])
        /\ (requests[r].pc = "gm_create" /\ requests'[r].pc = "gm_add") =>
              RowsOf(UserCurrentDiet', current_user) =
                 Append(RowsOf(UserCurrentDiet, current_user), [user_id |-> current_user])
        /\ (requests[r].pc = "gm_commit" /\ requests'[r].pc = "idle") =>
              LET d == requests[r].diet
              IN /\ MealsOf(UserCurrentDietMeals', d) =
                       MealsOf(UserCurrentDietMeals, d) \o DietMealRows(d, requests[r].plan)
                 /\ MealsOf(DietCalories', d) =
                       Append(MealsOf(DietCalories, d), DietCaloriesRow(d, requests[r].plan))

\* C5: the replace operations are not protected against interleaving: with the
\* requests of one user interleaved statement by statement, each commit inserts
\* its rows without regard to the rows another request committed since this
\* one's query, so that the user comes to hold two UserCalories rows, two
\* UserCurrentDiet rows and a diet with more than three meal rows.
C5_Unprotected == [][C5_Step]_vars

\* no request in flight, and the user holds two targets, two diets and a diet
\* with six meals
C5_Witness ==
    /\ \A r \in Requests : requests[r] = Idle
    /\ Len(RowsOf(UserCalories, current_user)) = 2
    /\ Len(RowsOf(UserCurrentDiet, current_user)) = 2
    /\ \E d \in Ids(UserCurrentDiet) : Len(MealsOf(UserCurrentDietMeals, d)) > 3

\* the response is a redirect to a route of the application, and the store is as it was
C6_RedirectsBack ==
    /\ response'.kind = "redirect"
    /\ response'.location \in Endpoints
    /\ UNCHANGED store

C6_Step ==
    (is_authenticated /\ profile_complete(User[current_user])) =>
        /\ \A plan \in MealPlans :
               (~HasCalories(current_user) /\ get_meals(plan)) => C6_RedirectsBack
        /\ \A time_frame \in CaloriesTimeFrames \cup {NoneStr} :
               (~HasCalories(current_user) /\ show_calories(time_frame)) => C6_RedirectsBack
        /\ ((DietOf(current_user) = 0 \/ DietCaloriesOf(DietOf(current_user)) = NoneNum) /\ save_calories)
               => C6_RedirectsBack

\* C6: for an authenticated user with a complete profile, get_meals and
\* show_calories run without a UserCalories row of the user, and save_calories
\* run without a UserCurrentDiet or DietCalories row of the user, each end in a
\* redirect to an existing route and leave the store unchanged, never in an
\* unhandled error.
C6_MissingRowRedirects == [][C6_Step]_vars

\* the days of the window a request selects; no selection takes the default
C7_Days(time_frame, default) == WindowDays(IF time_frame = NoneStr THEN default ELSE time_frame)

\* no sample of the user is inside the window
C7_Empty(table, days) ==
    \A i \in Ids(table) : table[i].user_id = current_user => table[i].created_at < now - days

\* the response reports the empty result: a page with empty label and value
\* sequences, or a redirect to another route that carries the notice
C7_Reported(endpoint) ==
    /\ response'.kind # "error"
    /\ response'.kind = "render" => (response'.data[2] = <<>> /\ response'.data[3] = <<>>)
    /\ response'.kind = "redirect" => (response'.location \in Endpoints \ {endpoint})

C7_Step ==
    (is_authenticated /\ profile_complete(User[current_user])) =>
        /\ \A time_frame \in CaloriesTimeFrames \cup {NoneStr} :
               (/\ HasCalories(current_user)
                /\ C7_Empty(UserCaloriesOverTime, C7_Days(time_frame, "1 Week"))
                /\ show_calories(time_frame)) => C7_Reported("show_calories")
        /\ \A time_frame \in WeightTimeFrames \cup {NoneStr} :
               (/\ C7_Empty(UserWeightOverTime, C7_Days(time_frame, "1 Month"))
                /\ show_weight(time_frame)) => C7_Reported("show_weight")

\* C7: when a user with a target requests show_calories, or any user
\* show_weight, and no sample of the user is inside the selected window, the
\* request completes with a response reporting the empty result; it raises no
\* error and does not redirect back to the same query.
C7_EmptyWindowReported == [][C7_Step]_vars

\* table holds every row it held, unchanged and in place, and at most one more
C8_Appended(old, new) ==
    /\ Len(new) \in {Len(old), Len(old) + 1}
    /\ SubSeq(new, 1, Len(old)) = old

\* C8: the weight and calorie logs are append-only: every request leaves each
\* row already written to UserWeightOverTime and UserCaloriesOverTime unchanged
\* and present, so each user's log only grows, and a request adds at most one
\* row to the two logs together.
C8_AppendOnly ==
    [][/\ C8_Appended(UserWeightOverTime, UserWeightOverTime')
       /\ C8_Appended(UserCaloriesOverTime, UserCaloriesOverTime')
       /\ Len(UserWeightOverTime') + Len(UserCaloriesOverTime')
             <= Len(UserWeightOverTime) + Len(UserCaloriesOverTime) + 1
       /\ \A u \in Ids(User) : C8_Appended(RowsOf(UserWeightOverTime, u), RowsOf(UserWeightOverTime', u))
       /\ \A u \in Ids(User) : C8_Appended(RowsOf(UserCaloriesOverTime, u), RowsOf(UserCaloriesOverTime', u))]_vars

\* the logged-in user has appended to both logs after older samples: two
\* weights, the older one still there, and two saved calorie samples
C8_Witness ==
    /\ current_user = 1
    /\ Len(RowsOf(UserWeightOverTime, 1)) = 2
    /\ RowsOf(UserWeightOverTime, 1)[1].created_at < RowsOf(UserWeightOverTime, 1)[2].created_at
    /\ RowsOf(UserWeightOverTime, 1)[1].weight # RowsOf(UserWeightOverTime, 1)[2].weight
    /\ Len(RowsOf(UserCaloriesOverTime, 1)) = 2

\* the samples of the requesting user at most days old, in the order of the log
C9_Samples(table, days) ==
    LET inside == {i \in Ids(table) : table[i].user_id = current_user /\ now - table[i].created_at <= days}
        pick[n \in 0 .. Len(table)] ==
            IF n = 0 THEN <<>>
            ELSE IF n \in inside THEN Append(pick[n - 1], table[n]) ELSE pick[n - 1]
    IN pick[Len(table)]

\* the page shows the window: its name, the samples' labels and their values,
\* label and value of the same sample at the same place, the samples by time
C9_Shows(samples, name, Value(_)) ==
    /\ response'.kind = "render"
    /\ response'.data[1] = name
    /\ Len(response'.data[2]) = Len(samples) /\ Len(response'.data[3]) = Len(samples)
    /\ \A k \in Ids(samples) : /\ response'.data[2][k] = strftime(samples[k].created_at)
                                /\ response'.data[3][k] = Value(samples[k])
    /\ \A j \in Ids(samples), k \in Ids(samples) : j < k => samples[j].created_at <= samples[k].created_at

C9_Calories(row) == row.calories

C9_Weight(row) == row.weight

C9_CaloriesStep(time_frame) ==
    LET name == IF time_frame = NoneStr THEN "1 Week" ELSE time_frame
    IN C9_Shows(C9_Samples(UserCaloriesOverTime, WindowDays(name)), name, C9_Calories)

C9_WeightStep(time_frame) ==
    LET name == IF time_frame = NoneStr THEN "1 Month" ELSE time_frame
    IN C9_Shows(C9_Samples(UserWeightOverTime, WindowDays(name)), name, C9_Weight)

C9_Step ==
    (is_authenticated /\ profile_complete(User[current_user])) =>
        /\ \A time_frame \in CaloriesTimeFrames \cup {NoneStr} :
               (HasCalories(current_user) /\ show_calories(time_frame)) => C9_CaloriesStep(time_frame)
        /\ \A time_frame \in WeightTimeFrames \cup {NoneStr} :
               show_weight(time_frame) => C9_WeightStep(time_frame)

\* C9: for every named window (7, 14, 21, 30 days for calories; those and 90,
\* 180, 365 days for weight) the history query shows exactly the requesting
\* user's samples with created_at >= now - window, none of another user and
\* none older, ordered by time, as label and value sequences of equal length
\* whose entries at the same place come from the same sample; with no window
\* selected calories use 1 Week and weight uses 1 Month.
C9_WindowedHistory == [][C9_Step]_vars

\* the same of every query whose window holds a sample of the user
C9_NonEmptyWindows ==
    [][(is_authenticated /\ profile_complete(User[current_user])) =>
          /\ \A time_frame \in CaloriesTimeFrames \cup {NoneStr} :
                 (/\ HasCalories(current_user)
                  /\ ~C7_Empty(UserCaloriesOverTime, C7_Days(time_frame, "1 Week"))
                  /\ show_calories(time_frame)) => C9_CaloriesStep(time_frame)
          /\ \A time_frame \in WeightTimeFrames \cup {NoneStr} :
                 show_weight(time_frame) => C9_WeightStep(time_frame)]_vars

\* an anonymous request of a protected route changes nothing in the store, logs
\* nobody in and is sent to the login page, which keeps the route as next
C10_Anonymous(request, endpoint) ==
    (~is_authenticated /\ response'.endpoint = endpoint /\ request) =>
        /\ UNCHANGED <<store, current_user>>
        /\ response'.kind = "redirect" /\ response'.location = "login" /\ response'.next = endpoint

C10_AnonymousStep ==
    /\ C10_Anonymous(logout, "logout")
    /\ \A form \in FormProfiles, valid \in BOOLEAN :
           C10_Anonymous(finish_account(form, valid), "finish_account")
    /\ \A email \in Emails, form \in FormProfiles, valid \in BOOLEAN :
           C10_Anonymous(account(email, form, valid), "account")
    /\ C10_Anonymous(get_calories, "get_calories")
    /\ \A plan \in MealPlans : C10_Anonymous(get_meals(plan), "get_meals")
    /\ C10_Anonymous(show_meals, "show_meals")
    /\ C10_Anonymous(save_calories, "save_calories")
    /\ \A time_frame \in CaloriesTimeFrames \cup {NoneStr} :
           C10_Anonymous(show_calories(time_frame), "show_calories")
    /\ \A time_frame \in WeightTimeFrames \cup {NoneStr} :
           C10_Anonymous(show_weight(time_frame), "show_weight")

\* the credentials of a login request are those of a registered user
C10_Accepted(email, password, valid) ==
    /\ valid
    /\ UserByEmail(email) # 0
    /\ check_password_hash(User[UserByEmail(email)].password, password)

\* a login that is refused logs nobody in and stays on the login page, which
\* keeps the destination
C10_RefusedStep ==
    \A email \in Emails, password \in Passwords, valid \in BOOLEAN :
        (/\ ~is_authenticated /\ response'.endpoint = "login"
         /\ ~C10_Accepted(email, password, valid) /\ login(email, password, valid)) =>
            /\ UNCHANGED <<store, current_user>>
            /\ response'.endpoint = "login" /\ response'.kind = "render"
            /\ response'.next = NextArg

\* a login that succeeds on a login page holding a destination redirects to it
C10_AcceptedStep ==
    \A email \in Emails, password \in Passwords, valid \in BOOLEAN :
        (/\ ~is_authenticated /\ NextArg # "" /\ response'.endpoint = "login"
         /\ C10_Accepted(email, password, valid) /\ login(email, password, valid)) =>
            /\ current_user' = UserByEmail(email)
            /\ response'.kind = "redirect" /\ response'.location = NextArg

\* the same, but a user whose profile is incomplete is sent to finish_account
C10_AcceptedCompleteStep ==
    \A email \in Emails, password \in Passwords, valid \in BOOLEAN :
        (/\ ~is_authenticated /\ NextArg # "" /\ response'.endpoint = "login"
         /\ C10_Accepted(email, password, valid) /\ login(email, password, valid)) =>
            /\ current_user' = UserByEmail(email)
            /\ response'.kind = "redirect"
            /\ response'.location = IF profile_complete(User[UserByEmail(email)])
                                    THEN NextArg ELSE "finish_account"

\* C10, as stated: an anonymous request of a protected route changes nothing
\* in the store and leads to the login page with the destination kept, the
\* next successful login of any user redirects to that destination, and a
\* login with a wrong password or unknown email logs nobody in and stays on
\* the login page.
C10_LoginReturns ==
    [][~is_authenticated =>
          /\ response'.endpoint # "login" => C10_AnonymousStep
          /\ response'.endpoint = "login" => (C10_RefusedStep /\ C10_AcceptedStep)]_vars

\* C10, amended: as stated, except that the successful login redirects to the
\* kept destination only when the profile of the user is complete; a user
\* whose profile is incomplete is redirected to finish_account instead.
C10_LoginReturnsWhenComplete ==
    [][~is_authenticated =>
          /\ response'.endpoint # "login" => C10_AnonymousStep
          /\ response'.endpoint = "login" => (C10_RefusedStep /\ C10_AcceptedCompleteStep)]_vars

\* a user with a complete profile has logged in from the login page an
\* anonymous request of show_weight led to, and is sent on to show_weight
C10_Witness ==
    /\ is_authenticated
    /\ profile_complete(User[current_user])
    /\ response = Redirect("login", "show_weight")

\* the log holds every row it held and one more: a sample of the user with that weight
C11_Recorded(weight) ==
    /\ Len(UserWeightOverTime') = Len(UserWeightOverTime) + 1
    /\ SubSeq(UserWeightOverTime', 1, Len(UserWeightOverTime)) = UserWeightOverTime
    /\ UserWeightOverTime'[Len(UserWeightOverTime')].user_id = current_user
    /\ UserWeightOverTime'[Len(UserWeightOverTime')].weight = weight
    /\ User'[current_user].weight = weight

C11_Step ==
    is_authenticated =>
        /\ response'.endpoint = "finish_account" =>
              \A form \in FormProfiles, valid \in BOOLEAN :
                 finish_account(form, valid) =>
                    IF valid /\ ~HasCalories(current_user)
                    THEN C11_Recorded(form.weight)
                    ELSE UNCHANGED <<User, UserWeightOverTime>>
        /\ response'.endpoint = "account" =>
              \A email \in Emails, form \in FormProfiles, valid \in BOOLEAN :
                 account(email, form, valid) =>
                    IF ~valid
                    THEN UNCHANGED <<User, UserWeightOverTime>>
                    ELSE IF form.weight # User[current_user].weight
                    THEN C11_Recorded(form.weight)
                    ELSE /\ UNCHANGED UserWeightOverTime
                         /\ User'[current_user].weight = form.weight

\* the latest weight sample of every user is the weight of the profile; a
\* profile without a weight has no sample
C11_LatestIsProfile ==
    \A u \in Ids(User) :
        LET samples == RowsOf(UserWeightOverTime, u)
        IN IF User[u].weight = NoneNum
           THEN samples = <<>>
           ELSE samples # <<>> /\ samples[Len(samples)].weight = User[u].weight

C12_Present(u) ==
    /\ u.height # NoneNum /\ u.weight # NoneNum /\ u.age # NoneNum
    /\ u.goal # NoneStr /\ u.activity_level # NoneStr /\ u.gender # NoneStr

\* a get_calories request of a logged-in user either finds the profile complete,
\* or answers with the redirect to finish_account and writes nothing
C12_Step ==
    (is_authenticated /\ response'.endpoint = "get_calories" /\ get_calories) =>
        IF C12_Present(User[current_user])
        THEN response'.kind \in {"render", "error"}
        ELSE /\ response' = Redirect("get_calories", url_for("finish_account"))
             /\ UNCHANGED store

\* a user who has a target or a diet has a complete profile
C12_RowsImplyComplete ==
    \A u \in Ids(User) :
        (\/ \E i \in Ids(UserCalories) : UserCalories[i].user_id = u
         \/ \E i \in Ids(UserCurrentDiet) : UserCurrentDiet[i].user_id = u) => C12_Present(User[u])

\* C12: the calculator is never run on an incomplete profile: get_calories
\* reaches calculate_calories only when height, weight, age, goal, activity
\* level and gender of the user are all present, and otherwise redirects to
\* finish_account and writes nothing; so a UserCalories or UserCurrentDiet
\* row exists for a user only if that user's profile is complete.
C12_CalculatorOnCompleteProfiles == []C12_RowsImplyComplete /\ [][C12_Step]_vars

\* a user who only registered asked for get_calories and was sent to
\* finish_account, while another user holds a target
C12_Witness ==
    /\ is_authenticated
    /\ ~C12_Present(User[current_user])
    /\ response = Redirect("get_calories", url_for("finish_account"))
    /\ \E i \in Ids(UserCalories) : UserCalories[i].user_id # current_user

====
